---- MODULE Spec2Model ----
(***************************************************************************)
(* The refreshable FX cache of backend-proxy/server.js: the in-memory      *)
(* FX_CACHE, its refresh cycles (refreshFXCache), the disk backup          *)
(* (saveFXCacheBackup / loadFXCacheFromBackup), the start-up scheduling    *)
(* (initializeFXCache) and the authenticated write path (POST              *)
(* /api/fx-cache) with its timestamped backups and their rotation.         *)
(*                                                                         *)
(* Time (Date.now()) is counted in hours; upstream timestamps are epoch    *)
(* seconds, as in the Yahoo payloads.                                      *)
(***************************************************************************)
EXTENDS Integers, Sequences, FiniteSets, TLC

VARIABLES
  now,        \* Date.now(), in hours
  FX_CACHE,   \* the live in-memory snapshot (server.js:24)
  origin,     \* history: for each snapshot field, the operation that wrote it
  latestFile, \* fx-cache-backup.json
  backupFiles,\* fx-cache-backup-<time>.json files: time -> content
  everCreated,\* history: the times of all timestamped backups ever written
  cutShort,  \* history: why some write ended without a full cleanup
  remote,     \* REMOTE_HOST && REMOTE_USER (server.js:562)
  init,       \* position of initializeFXCache
  timers,     \* pending setTimeout / setInterval timers
  nTimers,    \* number of timers created so far
  cycles,     \* refreshFXCache calls in flight: id -> position and data
  nCycles,    \* number of refresh cycles started so far
  lastCycle,  \* history: the last refresh cycle that completed
  lastTimerStart, \* history: when the last timer-driven refresh started
  writes,     \* POST /api/fx-cache handlers in flight: id -> position and data
  nWrites,    \* number of POST /api/fx-cache requests received so far
  resp,       \* the last HTTP response sent
  norm        \* input and output of one run of a series normalization

vars == <<now, FX_CACHE, origin, latestFile, backupFiles, everCreated, cutShort,
          remote, init, timers, nTimers, cycles, nCycles, lastCycle, writes,
          nWrites, resp, norm, lastTimerStart>>

-----------------------------------------------------------------------------
(* JavaScript values.  A close, a lastUpdate or a timestamp is a number, or *)
(* null, or a value that is not a number (undefined, NaN, a non-numeric     *)
(* string): isNaN() is true of exactly the last kind.                       *)

JsNull == -1
JsUndefined == -2

isNaN(x) == x = JsUndefined

\* JavaScript truthiness of a number-or-null value (backup.lastUpdate && ...)
Truthy(x) == x # JsNull /\ x # JsUndefined /\ x # 0

\* s[j] of a JavaScript array, j counted from 0: undefined outside the array
At(s, j) == IF j >= 0 /\ j < Len(s) THEN s[j + 1] ELSE JsUndefined

-----------------------------------------------------------------------------
(* Series normalization (server.js:265-307).                                *)

SecondsPerDay == 86400
DailyPoints == 8
HourStep == 4

\* new Date(t * 1000).toISOString().split('T')[0]: the UTC calendar day
DateOf(t) == t \div SecondsPerDay

\* new Date(t * 1000).toISOString(): the UTC day and the second within it
IsoOf(t) == [day |-> t \div SecondsPerDay, sec |-> t % SecondsPerDay]

\* new Date(t * 1000).toISOString() throws RangeError on a non-numeric t
DateThrows(t) == isNaN(t)

\* item => item.close !== null && !isNaN(item.close)
ValidClose(p) == p.close # JsNull /\ ~isNaN(p.close)

\* timestamps.slice(-8)
SliceLast(s, k) == IF Len(s) <= k THEN s ELSE SubSeq(s, Len(s) - k + 1, Len(s))

\* the daily map callback: (timestamp, index) => ({date, close})
DailyPoint(sl, cl, index) ==
  [date |-> DateOf(sl[index + 1]), close |-> At(cl, Len(cl) - DailyPoints + index)]

NormalizeDaily(ts, cl) ==
  LET sl == SliceLast(ts, DailyPoints)
      mapped == [i \in 1..Len(sl) |-> DailyPoint(sl, cl, i - 1)]
  IN SelectSeq(mapped, ValidClose)

\* (item, index) => index % 4 === 0
Every4thHourMut(index) == index % HourStep = 1
Every4thHour(index) == index % HourStep = 0

RECURSIVE FilterIndex(_, _)
FilterIndex(s, i) ==
  IF i >= Len(s) THEN <<>>
  ELSE (IF Every4thHour(i) THEN <<s[i + 1]>> ELSE <<>>) \o FilterIndex(s, i + 1)

\* the intraday map callback: (timestamp, index) => ({timestamp, date, close})
IntradayPoint(ts, cl, index) ==
  [timestamp |-> ts[index + 1], date |-> IsoOf(ts[index + 1]), close |-> At(cl, index)]

NormalizeIntraday(ts, cl) ==
  LET mapped == [i \in 1..Len(ts) |-> IntradayPoint(ts, cl, i - 1)]
  IN SelectSeq(FilterIndex(mapped, 0), ValidClose)

-----------------------------------------------------------------------------
(* Raw upstream series for the normalization runs: n hourly timestamps and  *)
(* m closes, of which the one at (0-based) index b is null and the one at   *)
(* index b + 4 is not a number (an index past the end marks none).          *)

MaxHourly == 40
MaxSkew == 1
BaseSecond == 19723 * SecondsPerDay
SecondsPerHour == 3600
BasePrice == 100

RawTimestamps(n) == [i \in 1..n |-> BaseSecond + SecondsPerHour * (i - 1)]

RawCloses(m, b1, b2) ==
  [i \in 1..m |-> IF i - 1 = b1 THEN JsNull
                  ELSE IF i - 1 = b2 THEN JsUndefined ELSE BasePrice + i]

NormIdle == [ts |-> <<>>, cl |-> <<>>, kind |-> "none", out |-> <<>>]

Lengths(n) == { m \in 0..(MaxHourly + MaxSkew) : m >= n - MaxSkew /\ m <= n + MaxSkew }

RawInputs ==
  UNION { UNION { { [ts |-> RawTimestamps(n), cl |-> RawCloses(m, b, b + HourStep),
                     kind |-> "none", out |-> <<>>] : b \in 0..m } :
                  m \in Lengths(n) } : n \in 0..MaxHourly }

-----------------------------------------------------------------------------
(* The snapshot (server.js:24-33).  Flags are "true", "false" or            *)
(* "undefined"; error is "null", "undefined" or a message.                  *)

REFRESH_INTERVAL == 4
MaxBackupAge == 24
KeepBackups == 10

SeriesFields == <<"usdjpy1D", "dxy1D", "usdjpy4H", "dxy4H">>
RequiredFields == <<"lastUpdate", "usdjpy1D", "dxy1D", "usdjpy4H", "dxy4H">>
DataFields == {"lastUpdate", "usdjpy1D", "dxy1D", "usdjpy4H", "dxy4H"}

EmptyCache ==
  [lastUpdate |-> JsNull, usdjpy1D |-> <<>>, dxy1D |-> <<>>, usdjpy4H |-> <<>>,
   dxy4H |-> <<>>, dataReady |-> "false", isLoading |-> "false", error |-> "null"]

\* what GET /api/fx-cache serves of a snapshot (server.js:465-470)
Served(cache) == [f \in DataFields |-> cache[f]]

\* an absent property reads as undefined: the number fields as JsUndefined,
\* the flags and error as "undefined"; the series of a snapshot are arrays
Undefined(f) == IF f = "lastUpdate" THEN JsUndefined ELSE "undefined"
Defined(obj, f) ==
  IF f \in {"usdjpy1D", "dxy1D", "usdjpy4H", "dxy4H"} THEN TRUE ELSE obj[f] # Undefined(f)
Blank(f) == IF f = "lastUpdate" THEN 0 ELSE ""

\* JSON.stringify(obj, null, 2) (server.js:343, 547): the text holds the
\* properties whose value is not undefined, each with its value; a number,
\* null, a string and an array of points are written as they are
JSONstringify(obj) ==
  [keys |-> { f \in DOMAIN obj : Defined(obj, f) },
   val |-> [f \in DOMAIN obj |->
              IF f \in {"usdjpy1D", "dxy1D", "usdjpy4H", "dxy4H"} THEN obj[f]
              ELSE IF Defined(obj, f) THEN obj[f] ELSE Blank(f)]]

\* JSON.parse(text) (server.js:357): the object of the properties the text
\* holds; any other property reads as undefined
JSONparse(text) ==
  [f \in DOMAIN text.val |-> IF f \in text.keys THEN text.val[f] ELSE Undefined(f)]

NoFile == [exists |-> FALSE, text |-> JSONstringify(EmptyCache)]
FileOf(text) == [exists |-> TRUE, text |-> text]

\* all five snapshot fields written by one operation
AllFrom(tag) == [f \in DataFields |-> tag]

-----------------------------------------------------------------------------
(* Upstream responses (server.js:238-263).  A response that arrives is      *)
(* "good" (timestamp and close arrays), "noresult" (no chart.result, or no  *)
(* timestamp field: the code falls back to []), or "badts" (a timestamp     *)
(* that is not a number, on which toISOString throws).                      *)

DailyLength == 9
HourlyLength == 5
PayloadKinds == {"good", "noresult", "badts"}
MaxBadResponses == 1

AllGood == [k \in 1..4 |-> "good"]

\* the responses of one cycle, at most MaxBadResponses of them not good
Responses ==
  { kinds \in [1..4 -> PayloadKinds] :
      Cardinality({ k \in 1..4 : kinds[k] # "good" }) <= MaxBadResponses }

\* the closes upstream serves to cycle c for series k: null (no trade) but
\* for the first and the last two
Quote(c, k, n) ==
  [i \in 1..n |-> IF i > 1 /\ i < n - 1 THEN JsNull ELSE BasePrice * c + 10 * k + i]

Payload(c, k, kind) ==
  LET n == IF k <= 2 THEN DailyLength ELSE HourlyLength
  IN IF kind = "good" THEN [ts |-> RawTimestamps(n), cl |-> Quote(c, k, n)]
     ELSE IF kind = "noresult" THEN [ts |-> <<>>, cl |-> <<>>]
     ELSE [ts |-> Append(RawTimestamps(n - 1), JsUndefined), cl |-> Quote(c, k, n)]

\* processing of response k (1, 2: daily; 3, 4: hourly)
Normalized(k, p) ==
  IF k <= 2 THEN NormalizeDaily(p.ts, p.cl) ELSE NormalizeIntraday(p.ts, p.cl)

\* the map callback throws on one of the timestamps it is applied to
ProcessingThrows(k, p) ==
  LET mapped == IF k <= 2 THEN SliceLast(p.ts, DailyPoints) ELSE p.ts
  IN \E i \in 1..Len(mapped) : DateThrows(mapped[i])

\* the first response whose processing throws, 5 when none does
FirstThrow(c, kinds) ==
  LET bad == { k \in 1..4 : ProcessingThrows(k, Payload(c, k, kinds[k])) }
  IN IF bad = {} THEN 5 ELSE CHOOSE k \in bad : \A j \in bad : k <= j

SeriesIndex(f) == CHOOSE k \in 1..4 : SeriesFields[k] = f

\* server.js:265-307: the four series are assigned to FX_CACHE one after the
\* other, each as soon as it is computed, up to the first throw
AssignSeries(cache, c, kinds) ==
  [f \in DOMAIN cache |->
     IF f \in {"usdjpy1D", "dxy1D", "usdjpy4H", "dxy4H"}
        /\ SeriesIndex(f) < FirstThrow(c, kinds)
     THEN Normalized(SeriesIndex(f), Payload(c, SeriesIndex(f), kinds[SeriesIndex(f)]))
     ELSE cache[f]]

AssignOrigin(org, c, kinds) ==
  [f \in DOMAIN org |->
     IF f \in {"usdjpy1D", "dxy1D", "usdjpy4H", "dxy4H"}
        /\ SeriesIndex(f) < FirstThrow(c, kinds)
     THEN c ELSE org[f]]

\* server.js:310-312
CommitMetadata(cache, t) ==
  [cache EXCEPT !.lastUpdate = t, !.dataReady = "true", !.isLoading = "false"]

\* server.js:327-328
CatchRefresh(cache, message) ==
  [cache EXCEPT !.isLoading = "false", !.error = message]

\* server.js:233-234
BeginRefreshMut(cache) ==
  [cache EXCEPT !.isLoading = "true", !.error = "null", !.dataReady = "false"]
BeginRefresh(cache) == [cache EXCEPT !.isLoading = "true", !.error = "null"]

\* server.js:360: backup.lastUpdate && (Date.now() - backup.lastUpdate) < 24h
BackupUsable(backup, t) ==
  Truthy(backup.lastUpdate) /\ t - backup.lastUpdate < MaxBackupAge

\* server.js:353-373: the snapshot after loadFXCacheFromBackup, given whether
\* the read succeeded
LoadedCache(cache, file, readOk, t) ==
  IF readOk /\ file.exists /\ BackupUsable(JSONparse(file.text), t)
  THEN JSONparse(file.text) ELSE cache

BackupLoaded(file, readOk, t) ==
  readOk /\ file.exists /\ BackupUsable(JSONparse(file.text), t)

-----------------------------------------------------------------------------
(* Bounds of the model.                                                     *)

StartTime == 30
MaxElapsed == 1
MaxCycles == 2
MaxWrites == 1
MaxSchedElapsed == 5

-----------------------------------------------------------------------------
(* Refresh cycles: refreshFXCache (server.js:231-335).  A cycle is          *)
(* suspended at Promise.all (pc "fetch"), at the writeFile of                *)
(* saveFXCacheBackup (pc "save") or at the readFile of                       *)
(* loadFXCacheFromBackup (pc "load").                                        *)

NewCycle(src, cache) ==
  [src |-> src, pc |-> "fetch", fetch |-> [i \in 1..4 |-> "pending"],
   responses |-> [k \in 1..4 |-> "pending"],
   before |-> cache, alone |-> DOMAIN cycles = {}, text |-> NoFile.text]

\* refreshFXCache() is called: server.js:232-238, up to the await
StartCycle(src, cache, org) ==
  /\ nCycles' = nCycles + 1
  /\ FX_CACHE' = BeginRefresh(cache)
  /\ origin' = org
  /\ cycles' = [k \in DOMAIN cycles \cup {nCycles + 1} |->
                  IF k = nCycles + 1 THEN NewCycle(src, cache)
                  ELSE [cycles[k] EXCEPT !.alone = FALSE]]

Without(f, k) == [j \in DOMAIN f \ {k} |-> f[j]]

IntervalTimer(t) == [id |-> nTimers + 1, kind |-> "interval", due |-> t + REFRESH_INTERVAL]

\* the answer of POST /api/fx-cache/refresh (server.js:675-695)
RefreshResponse(result, cache) ==
  [req |-> "refresh", status |-> IF result THEN 200 ELSE 500,
   success |-> result, error |-> cache.error]

CompleteMut(c, result, cache) ==
  /\ cycles' = Without(cycles, c)
  /\ lastCycle' = [id |-> c, src |-> cycles[c].src, result |-> result,
                   alone |-> cycles[c].alone]
  /\ IF cycles[c].src = "init"
     THEN /\ timers' = IF result THEN timers \cup {IntervalTimer(now)} ELSE timers
          /\ nTimers' = nTimers + 1
          /\ init' = "running"
          /\ resp' = resp
     ELSE /\ timers' = IF result THEN timers ELSE {}
          /\ UNCHANGED <<nTimers, init>>
          /\ resp' = IF cycles[c].src = "manual"
                     THEN RefreshResponse(result, cache) ELSE resp

\* refreshFXCache returns: its caller continues (server.js:391/405 -> 409,
\* server.js:673 -> 675)
Complete(c, result, cache) ==
  /\ cycles' = Without(cycles, c)
  /\ lastCycle' = [id |-> c, src |-> cycles[c].src, result |-> result,
                   alone |-> cycles[c].alone]
  /\ IF cycles[c].src = "init"
     THEN /\ timers' = timers \cup {IntervalTimer(now)}
          /\ nTimers' = nTimers + 1
          /\ init' = "running"
          /\ resp' = resp
     ELSE /\ UNCHANGED <<timers, nTimers, init>>
          /\ resp' = IF cycles[c].src = "manual"
                     THEN RefreshResponse(result, cache) ELSE resp

\* one of the four requests fails: Promise.all rejects at once and the
\* catch block runs (server.js:325-331, up to the await)
FetchRejected(c, i) ==
  /\ c \in DOMAIN cycles /\ cycles[c].pc = "fetch" /\ cycles[c].fetch[i] = "pending"
  /\ FX_CACHE' = CatchRefresh(FX_CACHE, "fetch failed")
  /\ cycles' = [cycles EXCEPT ![c].pc = "load", ![c].fetch[i] = "failed"]
  /\ UNCHANGED <<now, origin, latestFile, backupFiles, everCreated, cutShort, remote,
                 init, timers, nTimers, nCycles, lastCycle, writes, nWrites, resp, norm,
                 lastTimerStart>>

\* one of the four requests succeeds while another is still pending.  The
\* four requests are alike until their responses are processed, so those
\* that succeed are taken in the order of the array
FetchFulfilled(c, i) ==
  /\ c \in DOMAIN cycles /\ cycles[c].pc = "fetch" /\ cycles[c].fetch[i] = "pending"
  /\ \A j \in 1..(i - 1) : cycles[c].fetch[j] = "ok"
  /\ \E j \in 1..4 : j # i /\ cycles[c].fetch[j] = "pending"
  /\ cycles' = [cycles EXCEPT ![c].fetch[i] = "ok"]
  /\ UNCHANGED <<now, FX_CACHE, origin, latestFile, backupFiles, everCreated, cutShort,
                 remote, init, timers, nTimers, nCycles, lastCycle, writes, nWrites,
                 resp, norm,
                 lastTimerStart>>

\* the last of the four requests succeeds: the responses are processed
\* (server.js:265-322, up to the await of saveFXCacheBackup; or, when the
\* processing throws, server.js:325-331)
RefreshProcess(c, i) ==
  /\ c \in DOMAIN cycles /\ cycles[c].pc = "fetch" /\ cycles[c].fetch[i] = "pending"
  /\ \A j \in 1..4 : j # i => cycles[c].fetch[j] = "ok"
  /\ \E kinds \in Responses :
       IF FirstThrow(c, kinds) <= 4
       THEN /\ FX_CACHE' = CatchRefresh(AssignSeries(FX_CACHE, c, kinds), "Invalid time value")
            /\ origin' = AssignOrigin(origin, c, kinds)
            /\ cycles' = [cycles EXCEPT ![c].pc = "load", ![c].fetch[i] = "ok",
                            ![c].responses = kinds]
       ELSE /\ FX_CACHE' = CommitMetadata(AssignSeries(FX_CACHE, c, kinds), now)
            /\ origin' = AllFrom(c)
            /\ cycles' = [cycles EXCEPT ![c].pc = "save", ![c].fetch[i] = "ok",
                            ![c].responses = kinds,
                            ![c].text = JSONstringify(
                               CommitMetadata(AssignSeries(FX_CACHE, c, kinds), now))]
  /\ UNCHANGED <<now, latestFile, backupFiles, everCreated, cutShort, remote, init,
                 timers, nTimers, nCycles, lastCycle, writes, nWrites, resp, norm,
                 lastTimerStart>>

\* saveFXCacheBackup (server.js:340-348) ends, then refreshFXCache returns true
RefreshSaved(c, writeOk) ==
  /\ c \in DOMAIN cycles /\ cycles[c].pc = "save"
  /\ latestFile' = IF writeOk THEN FileOf(cycles[c].text) ELSE latestFile
  /\ Complete(c, TRUE, FX_CACHE)
  /\ UNCHANGED <<now, FX_CACHE, origin, backupFiles, everCreated, cutShort, remote,
                 nCycles, writes, nWrites, norm,
                 lastTimerStart>>

\* loadFXCacheFromBackup (server.js:353-373) ends, then refreshFXCache
\* returns false
RefreshFallback(c, readOk) ==
  /\ c \in DOMAIN cycles /\ cycles[c].pc = "load"
  /\ FX_CACHE' = LoadedCache(FX_CACHE, latestFile, readOk, now)
  /\ origin' = IF BackupLoaded(latestFile, readOk, now) THEN AllFrom(0) ELSE origin
  /\ Complete(c, FALSE, LoadedCache(FX_CACHE, latestFile, readOk, now))
  /\ UNCHANGED <<now, latestFile, backupFiles, everCreated, cutShort, remote,
                 nCycles, writes, nWrites, norm,
                 lastTimerStart>>

-----------------------------------------------------------------------------
(* Start-up and timers: initializeFXCache (server.js:378-411).              *)

\* server.js:389: if (hours > 4)
StaleAtStartMut(age) == age > MaxBackupAge
StaleAtStart(age) == age > REFRESH_INTERVAL

\* server.js:382-406: loadFXCacheFromBackup has ended; the backup is either
\* refreshed at once, or used and the next refresh scheduled, or absent
InitLoad(readOk) ==
  /\ init = "boot"
  /\ LET loaded == BackupLoaded(latestFile, readOk, now)
         cache == LoadedCache(FX_CACHE, latestFile, readOk, now)
         age == now - cache.lastUpdate
     IN IF loaded /\ ~StaleAtStart(age)
        THEN /\ FX_CACHE' = cache
             /\ origin' = AllFrom(0)
             /\ timers' = timers \cup
                  { [id |-> nTimers + 1, kind |-> "timeout",
                     due |-> now + (REFRESH_INTERVAL - age)],
                    [id |-> nTimers + 2, kind |-> "interval",
                     due |-> now + REFRESH_INTERVAL] }
             /\ nTimers' = nTimers + 2
             /\ init' = "running"
             /\ cycles' = [k \in DOMAIN cycles |-> [cycles[k] EXCEPT !.alone = FALSE]]
             /\ UNCHANGED nCycles
        ELSE /\ StartCycle("init", cache, IF loaded THEN AllFrom(0) ELSE origin)
             /\ init' = "refreshing"
             /\ UNCHANGED <<timers, nTimers>>
  /\ UNCHANGED <<now, latestFile, backupFiles, everCreated, cutShort, remote,
                 lastCycle, writes, nWrites, resp, norm,
                 lastTimerStart>>

\* a timer is due: the delayed start-up tick (server.js:396-399) or a tick
\* of a recurring timer (server.js:398, 409)
TimerFire(t) ==
  /\ t \in timers /\ t.due <= now
  /\ StartCycle("timer", FX_CACHE, origin)
  /\ timers' = (timers \ {t}) \cup
       { IF t.kind = "timeout" THEN IntervalTimer(now)
         ELSE [t EXCEPT !.due = t.due + REFRESH_INTERVAL] }
  /\ lastTimerStart' = now
  /\ nTimers' = IF t.kind = "timeout" THEN nTimers + 1 ELSE nTimers
  /\ UNCHANGED <<now, latestFile, backupFiles, everCreated, cutShort, remote, init,
                 lastCycle, writes, nWrites, resp, norm>>

\* time passes; a timer that is due fires before the clock moves on
Tick ==
  /\ \A t \in timers : t.due > now
  /\ now' = now + 1
  /\ UNCHANGED <<FX_CACHE, origin, latestFile, backupFiles, everCreated, cutShort,
                 remote, init, timers, nTimers, cycles, nCycles, lastCycle, writes,
                 nWrites, resp, norm,
                 lastTimerStart>>

-----------------------------------------------------------------------------
(* Requests.  A request carries no X-API-Key ("none"), a wrong one or the   *)
(* configured one.                                                          *)

Keys == {"none", "wrong", "right"}

\* verifyApiKey (server.js:418-438): the status it answers, 0 for next()
verifyApiKeyMut(key) ==
  IF key = "none" THEN 403 ELSE IF key # "right" THEN 401 ELSE 0
verifyApiKey(key) ==
  IF key = "none" THEN 401 ELSE IF key # "right" THEN 403 ELSE 0

\* GET /api/fx-cache (server.js:441-491): 503 while the cache is not ready,
\* else the data; 500 when building the answer throws (toISOString of
\* lastUpdate, server.js:475-477; new Date(null) is the epoch)
\* server.js:477, 718: the nextRefresh that the cache and status routes report
nextRefresh(cache) == cache.lastUpdate + REFRESH_INTERVAL

GetResponseMut(cache) ==
  IF cache.isLoading = "true"
  THEN [req |-> "get", status |-> 503, error |-> "Cache not ready",
        isLoading |-> cache.isLoading]
  ELSE [req |-> "get", status |-> 200, isLoading |-> cache.isLoading,
        data |-> Served(cache)]
GetResponse(cache) ==
  IF cache.dataReady # "true"
  THEN [req |-> "get", status |-> 503, error |-> "Cache not ready",
        isLoading |-> cache.isLoading]
  ELSE IF DateThrows(cache.lastUpdate)
  THEN [req |-> "get", status |-> 500, error |-> "Read failed",
        isLoading |-> cache.isLoading]
  ELSE [req |-> "get", status |-> 200, isLoading |-> cache.isLoading,
        data |-> Served(cache), nextRefresh |-> nextRefresh(cache)]

GetCache ==
  /\ resp' = GetResponse(FX_CACHE)
  /\ UNCHANGED <<now, FX_CACHE, origin, latestFile, backupFiles, everCreated, cutShort,
                 remote, init, timers, nTimers, cycles, nCycles, lastCycle, writes,
                 nWrites, norm,
                 lastTimerStart>>

\* POST /api/fx-cache/refresh with the configured key: refreshFXCache() is
\* called and awaited (server.js:673)
ManualRefresh ==
  /\ verifyApiKey("right") = 0
  /\ StartCycle("manual", FX_CACHE, origin)
  /\ UNCHANGED <<now, latestFile, backupFiles, everCreated, cutShort, remote, init,
                 timers, nTimers, lastCycle, writes, nWrites, resp, norm,
                 lastTimerStart>>

-----------------------------------------------------------------------------
(* POST /api/fx-cache (server.js:494-635).  A body is an object or not;     *)
(* `missing` are the required fields it lacks, `nonArrays` the series       *)
(* fields whose value is not an array, `obj` its content.                   *)

MaxBodies == 2

BodyDaily(v) == <<[date |-> DateOf(BaseSecond), close |-> BasePrice + v],
                  [date |-> DateOf(BaseSecond) + 1, close |-> BasePrice + v + 1]>>
BodyHourly(v) == <<[timestamp |-> BaseSecond, date |-> IsoOf(BaseSecond),
                    close |-> BasePrice + v]>>

BodyObj(v, lu, flag) ==
  [lastUpdate |-> lu, usdjpy1D |-> BodyDaily(v), dxy1D |-> BodyDaily(v + 1),
   usdjpy4H |-> BodyHourly(v), dxy4H |-> BodyHourly(v + 1),
   dataReady |-> flag, isLoading |-> IF flag = "true" THEN "false" ELSE "undefined",
   error |-> "undefined"]

Body(object, missing, nonArrays, obj) ==
  [object |-> object, missing |-> missing, nonArrays |-> nonArrays, obj |-> obj]

\* bodies with all five required fields and array series: with the flags
\* of the test sample (part_002:18-42), or the required fields only
ValidBodies(t) ==
  { Body(TRUE, {}, {}, BodyObj(v, t, IF v = 1 THEN "true" ELSE "undefined")) :
      v \in 1..MaxBodies }

InvalidBodies(t) ==
  { Body(TRUE, {f}, {}, BodyObj(1, t, "true")) : f \in DataFields }
  \cup { Body(TRUE, {}, {f}, BodyObj(1, t, "true")) : f \in DataFields \ {"lastUpdate"} }
  \cup { Body(FALSE, DataFields, {}, BodyObj(1, t, "true")) }

Bodies(t) == ValidBodies(t) \cup InvalidBodies(t)

\* server.js:509-517: the first required field that is not in the body
FirstMissingMut(body) ==
  IF \E k \in 2..5 : RequiredFields[k] \in body.missing
  THEN RequiredFields[CHOOSE k \in 2..5 : /\ RequiredFields[k] \in body.missing
                                           /\ \A j \in 2..(k - 1) : RequiredFields[j] \notin body.missing]
  ELSE "none"
FirstMissing(body) ==
  IF \E k \in 1..5 : RequiredFields[k] \in body.missing
  THEN RequiredFields[CHOOSE k \in 1..5 : /\ RequiredFields[k] \in body.missing
                                           /\ \A j \in 1..(k - 1) : RequiredFields[j] \notin body.missing]
  ELSE "none"

\* server.js:500-526: the validation's message, "ok" when the body passes
ValidateMut(body) ==
  IF ~body.object THEN "FX cache data must be a valid JSON object"
  ELSE IF FirstMissing(body) # "none" THEN "Missing required field"
  ELSE "ok"
Validate(body) ==
  IF ~body.object THEN "FX cache data must be a valid JSON object"
  ELSE IF FirstMissing(body) # "none" THEN "Missing required field"
  ELSE IF body.nonArrays # {} THEN "Currency data fields must be arrays"
  ELSE "ok"

Rejection(id, status, key, body, message, field) ==
  [req |-> "write", id |-> id, status |-> status, key |-> key, body |-> body,
   success |-> FALSE, message |-> message, field |-> field,
   localBackup |-> FALSE, remoteUpload |-> FALSE, remoteError |-> "null"]

\* verifyApiKey and the validation answer 401, 403 or 400
PostRejected(key, body) ==
  /\ verifyApiKey(key) # 0 \/ Validate(body) # "ok"
  /\ nWrites' = nWrites + 1
  /\ resp' = IF verifyApiKey(key) # 0
             THEN Rejection(nWrites + 1, verifyApiKey(key), key, body, "auth", "none")
             ELSE Rejection(nWrites + 1, 400, key, body, Validate(body), FirstMissing(body))
  /\ UNCHANGED <<now, FX_CACHE, origin, latestFile, backupFiles, everCreated, cutShort,
                 remote, init, timers, nTimers, cycles, nCycles, lastCycle, writes, norm,
                 lastTimerStart>>

\* key and body pass; server.js:533-539, up to the await of readFile
PostAccepted(key, body) ==
  /\ verifyApiKey(key) = 0 /\ Validate(body) = "ok"
  /\ nWrites' = nWrites + 1
  /\ writes' = [k \in DOMAIN writes \cup {nWrites + 1} |->
                  IF k = nWrites + 1
                  THEN [pc |-> "read", key |-> key, body |-> body, name |-> now,
                        existing |-> NoFile.text, found |-> FALSE, backup |-> "none",
                        todo |-> <<>>, remoteUpload |-> FALSE, remoteError |-> "null"]
                  ELSE writes[k]]
  /\ UNCHANGED <<now, FX_CACHE, origin, latestFile, backupFiles, everCreated, cutShort,
                 remote, init, timers, nTimers, cycles, nCycles, lastCycle, resp, norm,
                 lastTimerStart>>

\* server.js:539: readFile of the latest file ends; on failure (no file,
\* I/O error) the handler goes on to write the new data
PostReadExisting(w, readOk) ==
  /\ w \in DOMAIN writes /\ writes[w].pc = "read"
  /\ writes' = IF readOk /\ latestFile.exists
               THEN [writes EXCEPT ![w].pc = "backup", ![w].existing = latestFile.text,
                                   ![w].found = TRUE]
               ELSE [writes EXCEPT ![w].pc = "write"]
  /\ UNCHANGED <<now, FX_CACHE, origin, latestFile, backupFiles, everCreated, cutShort,
                 remote, init, timers, nTimers, cycles, nCycles, lastCycle, nWrites,
                 resp, norm,
                 lastTimerStart>>

PutFile(files, name, text) ==
  [t \in DOMAIN files \cup {name} |-> IF t = name THEN text ELSE files[t]]

\* server.js:540: what is written to the timestamped backup
BackupContentMut(w) == JSONstringify(w.body.obj)
BackupContent(w) == w.existing

\* server.js:540: writeFile of the timestamped backup ends; a failure is
\* logged (server.js:542-544) and the handler goes on
PostWriteBackup(w, writeOk) ==
  /\ w \in DOMAIN writes /\ writes[w].pc = "backup"
  /\ writes' = [writes EXCEPT ![w].pc = "write",
                              ![w].backup = IF writeOk THEN "written" ELSE "failed"]
  /\ backupFiles' = IF writeOk
                    THEN PutFile(backupFiles, writes[w].name, BackupContent(writes[w]))
                    ELSE backupFiles
  /\ everCreated' = IF writeOk THEN everCreated \cup {writes[w].name} ELSE everCreated
  /\ UNCHANGED <<now, FX_CACHE, origin, latestFile, cutShort, remote, init, timers,
                 nTimers, cycles, nCycles, lastCycle, nWrites, resp, norm,
                 lastTimerStart>>

\* the answer to an accepted write (server.js:612-625)
WriteResponseMut(w, id) ==
  [req |-> "write", id |-> id, status |-> 200, key |-> w.key, body |-> w.body,
   success |-> TRUE, message |-> "FX cache updated successfully", field |-> "none",
   localBackup |-> TRUE, remoteUpload |-> TRUE, remoteError |-> "null"]
WriteResponse(w, id) ==
  [req |-> "write", id |-> id, status |-> 200, key |-> w.key, body |-> w.body,
   success |-> TRUE, message |-> "FX cache updated successfully", field |-> "none",
   localBackup |-> TRUE, remoteUpload |-> w.remoteUpload, remoteError |-> w.remoteError]

\* server.js:547: what is written to the latest file
NewLatestMut(w) == w.existing
NewLatest(w) == JSONstringify(w.body.obj)

\* server.js:547-556: writeFile of the latest file ends; a failure is
\* answered 500 and ends the handler
PostWriteLatestMutLoad(w, writeOk) ==
  /\ w \in DOMAIN writes /\ writes[w].pc = "write"
  /\ IF writeOk
     THEN /\ latestFile' = FileOf(NewLatest(writes[w]))
          /\ FX_CACHE' = JSONparse(NewLatest(writes[w]))
          /\ writes' = [writes EXCEPT ![w].pc = IF remote THEN "upload" ELSE "readdir"]
          /\ resp' = resp
          /\ cutShort' = cutShort
     ELSE /\ latestFile' = latestFile
          /\ FX_CACHE' = FX_CACHE
          /\ writes' = Without(writes, w)
          /\ cutShort' = cutShort \cup {"write"}
          /\ resp' = [Rejection(w, 500, writes[w].key, writes[w].body,
                                "Local backup failed", "none") EXCEPT !.remoteError = "null"]
  /\ UNCHANGED <<now, origin, backupFiles, everCreated, remote,
                 init, timers, nTimers, cycles, nCycles, lastCycle, nWrites, norm,
                 lastTimerStart>>
PostWriteLatestMutGoOn(w, writeOk) ==
  /\ w \in DOMAIN writes /\ writes[w].pc = "write"
  /\ latestFile' = IF writeOk THEN FileOf(NewLatest(writes[w])) ELSE latestFile
  /\ writes' = [writes EXCEPT ![w].pc = IF remote THEN "upload" ELSE "readdir"]
  /\ cutShort' = IF writeOk THEN cutShort ELSE cutShort \cup {"write"}
  /\ UNCHANGED <<now, FX_CACHE, origin, backupFiles, everCreated, remote, resp,
                 init, timers, nTimers, cycles, nCycles, lastCycle, nWrites, norm,
                 lastTimerStart>>
PostWriteLatest(w, writeOk) ==
  /\ w \in DOMAIN writes /\ writes[w].pc = "write"
  /\ IF writeOk
     THEN /\ latestFile' = FileOf(NewLatest(writes[w]))
          /\ writes' = [writes EXCEPT ![w].pc = IF remote THEN "upload" ELSE "readdir"]
          /\ resp' = resp
          /\ cutShort' = cutShort
     ELSE /\ latestFile' = latestFile
          /\ writes' = Without(writes, w)
          /\ cutShort' = cutShort \cup {"write"}
          /\ resp' = [Rejection(w, 500, writes[w].key, writes[w].body,
                                "Local backup failed", "none") EXCEPT !.remoteError = "null"]
  /\ UNCHANGED <<now, FX_CACHE, origin, backupFiles, everCreated, remote,
                 init, timers, nTimers, cycles, nCycles, lastCycle, nWrites, norm,
                 lastTimerStart>>

\* server.js:570-585: the upload ends, in success or in failure
PostUpload(w, uploadOk) ==
  /\ w \in DOMAIN writes /\ writes[w].pc = "upload"
  /\ writes' = [writes EXCEPT ![w].pc = "readdir", ![w].remoteUpload = uploadOk,
                              ![w].remoteError = IF uploadOk THEN "null" ELSE "upload failed"]
  /\ UNCHANGED <<now, FX_CACHE, origin, latestFile, backupFiles, everCreated, cutShort,
                 remote, init, timers, nTimers, cycles, nCycles, lastCycle, nWrites,
                 resp, norm,
                 lastTimerStart>>

RECURSIVE SortDescending(_)
SortDescending(S) ==
  IF S = {} THEN <<>>
  ELSE LET m == CHOOSE x \in S : \A y \in S : y <= x
       IN <<m>> \o SortDescending(S \ {m})

\* server.js:593-603: the backups sorted newest first, from index 10 on
ToDeleteMut(files) ==
  LET sorted == SortDescending(DOMAIN files)
  IN IF Len(sorted) > KeepBackups + 1
     THEN SubSeq(sorted, KeepBackups + 2, Len(sorted)) ELSE <<>>
ToDelete(files) ==
  LET sorted == SortDescending(DOMAIN files)
  IN IF Len(sorted) > KeepBackups
     THEN SubSeq(sorted, KeepBackups + 1, Len(sorted)) ELSE <<>>

\* server.js:592-603: readdir ends; with nothing to delete, or on failure
\* (server.js:607), the handler answers
PostReaddir(w, readOk) ==
  /\ w \in DOMAIN writes /\ writes[w].pc = "readdir"
  /\ IF readOk /\ ToDelete(backupFiles) # <<>>
     THEN /\ writes' = [writes EXCEPT ![w].pc = "unlink", ![w].todo = ToDelete(backupFiles)]
          /\ UNCHANGED <<resp, cutShort>>
     ELSE /\ writes' = Without(writes, w)
          /\ resp' = WriteResponse(writes[w], w)
          /\ cutShort' = IF readOk THEN cutShort ELSE cutShort \cup {"cleanup"}
  /\ UNCHANGED <<now, FX_CACHE, origin, latestFile, backupFiles, everCreated, remote,
                 init, timers, nTimers, cycles, nCycles, lastCycle, nWrites, norm,
                 lastTimerStart>>

\* server.js:604: one unlink ends; after the last one, or on failure
\* (server.js:607), the handler answers
PostUnlink(w, unlinkOk) ==
  /\ w \in DOMAIN writes /\ writes[w].pc = "unlink"
  /\ LET name == Head(writes[w].todo)
         done == unlinkOk /\ name \in DOMAIN backupFiles
     IN /\ backupFiles' = IF done THEN Without(backupFiles, name) ELSE backupFiles
        /\ cutShort' = IF done THEN cutShort ELSE cutShort \cup {"cleanup"}
        /\ IF done /\ Tail(writes[w].todo) # <<>>
           THEN /\ writes' = [writes EXCEPT ![w].todo = Tail(writes[w].todo)]
                /\ resp' = resp
           ELSE /\ writes' = Without(writes, w)
                /\ resp' = WriteResponse(writes[w], w)
  /\ UNCHANGED <<now, FX_CACHE, origin, latestFile, everCreated, remote, init, timers,
                 nTimers, cycles, nCycles, lastCycle, nWrites, norm,
                 lastTimerStart>>

-----------------------------------------------------------------------------
(* Normalization runs.                                                      *)

RunDaily ==
  /\ norm.kind = "none"
  /\ norm' = [norm EXCEPT !.kind = "daily", !.out = NormalizeDaily(norm.ts, norm.cl)]
  /\ UNCHANGED <<now, FX_CACHE, origin, latestFile, backupFiles, everCreated, cutShort,
                 remote, init, timers, nTimers, cycles, nCycles, lastCycle, writes,
                 nWrites, resp,
                 lastTimerStart>>

RunIntraday ==
  /\ norm.kind = "none"
  /\ norm' = [norm EXCEPT !.kind = "intraday", !.out = NormalizeIntraday(norm.ts, norm.cl)]
  /\ UNCHANGED <<now, FX_CACHE, origin, latestFile, backupFiles, everCreated, cutShort,
                 remote, init, timers, nTimers, cycles, nCycles, lastCycle, writes,
                 nWrites, resp,
                 lastTimerStart>>

-----------------------------------------------------------------------------
(* Initial states.  The disk holds what an earlier run of the server left:  *)
(* no latest file, the snapshot an earlier refresh saved, of some age, or    *)
(* the body an accepted write saved.                                        *)

\* the snapshot a successful refresh of an earlier run committed at time t
SavedCache(t) == CommitMetadata(AssignSeries(EmptyCache, 0, AllGood), t)

InitialAges ==
  {REFRESH_INTERVAL - 1, REFRESH_INTERVAL, REFRESH_INTERVAL + 1, MaxBackupAge - 1,
   MaxBackupAge}

\* bodies that pass the validation of POST /api/fx-cache (server.js:500-526
\* tests the presence of five fields and Array.isArray of four) and differ
\* from a snapshot saved by a refresh: the data of a GET answered during a
\* refresh (server.js:465-471, isLoading true), a series with a point
\* without a price, the required fields alone
UncheckedObjs(t) ==
  { [BodyObj(1, t, "true") EXCEPT !.isLoading = "true"],
    [BodyObj(1, t, "true") EXCEPT !.usdjpy1D = <<[date |-> DateOf(BaseSecond), close |-> JsNull]>>],
    BodyObj(2, t, "undefined") }

\* the latest file an accepted write of an earlier run left (server.js:547),
\* less than one refresh period old
PostedFiles ==
  { FileOf(JSONstringify(obj)) : obj \in UncheckedObjs(StartTime - (REFRESH_INTERVAL - 1)) }

InitialFiles ==
  {NoFile} \cup { FileOf(JSONstringify(SavedCache(StartTime - a))) : a \in InitialAges }
  \cup PostedFiles

NoCycle == [id |-> 0, src |-> "none", result |-> FALSE, alone |-> TRUE]

NoResponse == [req |-> "none", status |-> 0]

\* the process starts: server.js:24-33, 729-745
Init ==
  /\ now = StartTime
  /\ FX_CACHE = EmptyCache
  /\ origin = AllFrom(0)
  /\ latestFile \in InitialFiles
  /\ backupFiles = <<>>
  /\ everCreated = {}
  /\ cutShort = {}
  /\ remote = FALSE
  /\ init = "boot"
  /\ timers = {}
  /\ nTimers = 0
  /\ cycles = <<>>
  /\ nCycles = 0
  /\ lastCycle = NoCycle
  /\ lastTimerStart = JsNull
  /\ writes = <<>>
  /\ nWrites = 0
  /\ resp = NoResponse
  /\ norm = NormIdle

\* a cycle may start: the bound on cycles leaves one for the start-up
CycleBudget == nCycles + (IF init = "boot" THEN 1 ELSE 0) < MaxCycles

\* the steps of the refresh cycles in flight
CycleStep ==
  \/ \E c \in DOMAIN cycles, i \in 1..4 : FetchRejected(c, i)
  \/ \E c \in DOMAIN cycles, i \in 1..4 : FetchFulfilled(c, i)
  \/ \E c \in DOMAIN cycles, i \in 1..4 : RefreshProcess(c, i)
  \/ \E c \in DOMAIN cycles, writeOk \in BOOLEAN : RefreshSaved(c, writeOk)
  \/ \E c \in DOMAIN cycles, readOk \in BOOLEAN : RefreshFallback(c, readOk)

\* the steps of the accepted writes in flight
WriteStep ==
  \/ \E w \in DOMAIN writes, readOk \in BOOLEAN : PostReadExisting(w, readOk)
  \/ \E w \in DOMAIN writes, writeOk \in BOOLEAN : PostWriteBackup(w, writeOk)
  \/ \E w \in DOMAIN writes, writeOk \in BOOLEAN : PostWriteLatest(w, writeOk)
  \/ \E w \in DOMAIN writes, uploadOk \in BOOLEAN : PostUpload(w, uploadOk)
  \/ \E w \in DOMAIN writes, readOk \in BOOLEAN : PostReaddir(w, readOk)
  \/ \E w \in DOMAIN writes, unlinkOk \in BOOLEAN : PostUnlink(w, unlinkOk)

\* the cache and its scheduler: start-up, timers, manual refreshes
Next ==
  \/ \E readOk \in BOOLEAN : InitLoad(readOk)
  \/ CycleBudget /\ \E t \in timers : TimerFire(t)
  \/ now < StartTime + MaxElapsed /\ Tick
  \/ CycleBudget /\ ManualRefresh
  \/ CycleStep

Spec == Init /\ [][Next]_vars

-----------------------------------------------------------------------------
(* The scheduler alone: start-up and timers, without requests, over more    *)
(* than one refresh period.                                                 *)

NextSched ==
  \/ \E readOk \in BOOLEAN : InitLoad(readOk)
  \/ CycleBudget /\ \E t \in timers : TimerFire(t)
  \/ now < StartTime + MaxSchedElapsed /\ Tick
  \/ CycleStep

SpecSched == Init /\ [][NextSched]_vars

\* the scheduler under the scheduling of the runtime: a promise that can
\* settle does settle (every request carries timeout: 10000, server.js:243-261;
\* the file operations end), a timer that is due fires, and time passes
SpecFair ==
  /\ SpecSched
  /\ WF_vars(\E readOk \in BOOLEAN : InitLoad(readOk))
  /\ WF_vars(CycleStep)
  /\ WF_vars(CycleBudget /\ \E t \in timers : TimerFire(t))
  /\ WF_vars(now < StartTime + MaxSchedElapsed /\ Tick)

-----------------------------------------------------------------------------
(* The cache with its readers and writers: one cycle less, and reads and    *)
(* accepted writes (without remote sink) beside it.                         *)

ServeBudget == nCycles + (IF init = "boot" THEN 1 ELSE 0) < MaxCycles - 1

NextServe ==
  \/ \E readOk \in BOOLEAN : InitLoad(readOk)
  \/ ServeBudget /\ \E t \in timers : TimerFire(t)
  \/ now < StartTime + MaxElapsed /\ Tick
  \/ ServeBudget /\ ManualRefresh
  \/ CycleStep
  \/ nWrites < MaxWrites /\ \E body \in ValidBodies(now) : PostAccepted("right", body)
  \/ \E w \in DOMAIN writes, readOk \in BOOLEAN : PostReadExisting(w, readOk)
  \/ \E w \in DOMAIN writes, writeOk \in BOOLEAN : PostWriteBackup(w, writeOk)
  \/ \E w \in DOMAIN writes, writeOk \in BOOLEAN : PostWriteLatest(w, writeOk)
  \/ \E w \in DOMAIN writes, readOk \in BOOLEAN : PostReaddir(w, readOk)
  \/ GetCache

SpecServe == Init /\ [][NextServe]_vars

-----------------------------------------------------------------------------
(* The write path alone, between the start-up and the first timer tick.     *)
(* The start-up found a backup one hour short of the refresh period, or it  *)
(* found none and its refresh failed; the disk holds the timestamped        *)
(* backups that earlier writes left.                                        *)

EarlierBackups(k) == [t \in 1..k |-> JSONstringify(SavedCache(t))]

InitWrite ==
  /\ now = StartTime
  /\ \E k \in {0, KeepBackups - 1, KeepBackups} :
       /\ backupFiles = EarlierBackups(k)
       /\ everCreated = 1..k
  /\ cutShort = {}
  /\ remote \in BOOLEAN
  /\ init = "running"
  /\ cycles = <<>>
  /\ writes = <<>>
  /\ nWrites = 0
  /\ resp = NoResponse
  /\ norm = NormIdle
  /\ origin = AllFrom(0)
  /\ \/ /\ latestFile = FileOf(JSONstringify(SavedCache(StartTime - (REFRESH_INTERVAL - 1))))
        /\ FX_CACHE = JSONparse(latestFile.text)
        /\ timers = { [id |-> 1, kind |-> "timeout", due |-> StartTime + 1],
                      [id |-> 2, kind |-> "interval", due |-> StartTime + REFRESH_INTERVAL] }
        /\ nTimers = 2
        /\ nCycles = 0
        /\ lastCycle = NoCycle
     \/ /\ latestFile = NoFile
        /\ FX_CACHE = CatchRefresh(BeginRefresh(EmptyCache), "fetch failed")
        /\ timers = { [id |-> 1, kind |-> "interval", due |-> StartTime + REFRESH_INTERVAL] }
        /\ nTimers = 1
        /\ nCycles = 1
        /\ lastCycle = [id |-> 1, src |-> "init", result |-> FALSE, alone |-> TRUE]
  /\ lastTimerStart = JsNull

NextWrite ==
  \/ Tick
  \/ nWrites < MaxWrites /\ \E key \in Keys, body \in Bodies(now) : PostRejected(key, body)
  \/ nWrites < MaxWrites /\ \E key \in Keys, body \in Bodies(now) : PostAccepted(key, body)
  \/ WriteStep

SpecWrite == InitWrite /\ [][NextWrite]_vars

-----------------------------------------------------------------------------
(* The normalizations alone, on every raw series of the bounds.             *)

InitNorm ==
  /\ now = StartTime
  /\ FX_CACHE = EmptyCache
  /\ origin = AllFrom(0)
  /\ latestFile = NoFile
  /\ backupFiles = <<>>
  /\ everCreated = {}
  /\ cutShort = {}
  /\ remote = FALSE
  /\ init = "boot"
  /\ timers = {}
  /\ nTimers = 0
  /\ cycles = <<>>
  /\ nCycles = 0
  /\ lastCycle = NoCycle
  /\ lastTimerStart = JsNull
  /\ writes = <<>>
  /\ nWrites = 0
  /\ resp = NoResponse
  /\ norm \in RawInputs

NextNorm == RunDaily \/ RunIntraday

SpecNorm == InitNorm /\ [][NextNorm]_vars

-----------------------------------------------------------------------------
(* Properties of the normalization (SpecNorm).                              *)

\* the 0-based source indices the intraday series is to keep: the multiples
\* of 4 whose close is neither null nor undefined/NaN
KeptIndices(ts, cl) ==
  { i \in 0..(Len(ts) - 1) :
      i % 4 = 0 /\ i < Len(cl) /\ cl[i + 1] # JsNull /\ cl[i + 1] # JsUndefined }

\* C10: for n hourly points the intraday normalization keeps exactly the
\* points whose source index is a multiple of 4 and whose close is valid, in
\* source order; 40 points with valid closes give the 10 points of the
\* indices 0, 4, ..., 36.
C10_Downsampling ==
  norm.kind = "intraday" =>
    LET K == KeptIndices(norm.ts, norm.cl)
    IN /\ Len(norm.out) = Cardinality(K)
       /\ \A j \in 1..Len(norm.out) :
            \E i \in K :
              /\ Cardinality({ h \in K : h < i }) = j - 1
              /\ norm.out[j] = [timestamp |-> norm.ts[i + 1],
                                date |-> IsoOf(norm.ts[i + 1]),
                                close |-> norm.cl[i + 1]]
       /\ (Len(norm.ts) = 40 /\ Cardinality(K) = 10) =>
            \A j \in 1..10 : norm.out[j].timestamp = norm.ts[4 * (j - 1) + 1]

\* 40 hourly points, all closes valid, downsampled to 10
C10_Witness ==
  /\ norm.kind = "intraday"
  /\ Len(norm.ts) = 40
  /\ \A i \in 1..40 : i <= Len(norm.cl) /\ norm.cl[i] # JsNull /\ norm.cl[i] # JsUndefined
  /\ Len(norm.out) = 10

-----------------------------------------------------------------------------
(* Properties of the refresh cycles (Spec, SpecServe, SpecSched).           *)

\* C1: a read that returns data returns the four series and lastUpdate of
\* one and the same committed snapshot.
C1_ReadsOneCommit ==
  GetResponse(FX_CACHE).status = 200 =>
    \A f \in DataFields : origin[f] = origin["lastUpdate"]

\* C2: when a refresh cycle has ended in failure, nothing that cycle
\* produced is in the live snapshot.
C2_FailedCycleLeavesNothing ==
  (lastCycle.id # 0 /\ ~lastCycle.result) =>
    \A f \in DataFields : origin[f] # lastCycle.id

\* cycle c ends in failure in this step, no other cycle having run beside it
FailedCycleEnds(c) ==
  /\ c \in DOMAIN cycles
  /\ cycles[c].pc = "load"
  /\ cycles[c].alone
  /\ c \notin DOMAIN cycles'

\* C3: when a refresh cycle that failed at the fetch completes, a cache that
\* answered 200 before the cycle still answers 200 with the data it served
\* before, and dataReady has the value it had before the attempt, whatever
\* the latest file holds.
C3_FailedCycleKeepsServedData ==
  [][\A c \in DOMAIN cycles :
       (/\ FailedCycleEnds(c)
        /\ \E i \in 1..4 : cycles[c].fetch[i] = "failed"
        /\ GetResponse(cycles[c].before).status = 200)
       => /\ GetResponse(FX_CACHE').status = 200
          /\ GetResponse(FX_CACHE').data = GetResponse(cycles[c].before).data
          /\ FX_CACHE'.dataReady = cycles[c].before.dataReady]_vars

\* C4: when a failed refresh cycle completes, the error field of the live
\* snapshot holds a failure message, also when a backup was loaded.
C4_FailedCycleSetsError ==
  [][\A c \in DOMAIN cycles :
       FailedCycleEnds(c) => FX_CACHE'.error \notin {"null", "undefined"}]_vars

\* C9: at process start with a backup whose lastUpdate is more than 4 hours
\* old, a refresh cycle is started at once and no timer is scheduled,
\* whether or not the backup is young enough to be installed.
C9_StaleBackupRefreshesAtOnce ==
  [][(/\ init = "boot" /\ init' # "boot"
      /\ latestFile.exists
      /\ Truthy(JSONparse(latestFile.text).lastUpdate)
      /\ now - JSONparse(latestFile.text).lastUpdate > 4)
     => /\ init' = "refreshing"
        /\ timers' = timers
        /\ nCycles' = nCycles + 1
        /\ nCycles' \in DOMAIN cycles'
        /\ cycles'[nCycles'].src = "init"
        /\ cycles'[nCycles'].pc = "fetch"
        /\ FX_CACHE'.isLoading = "true"]_vars

\* the start-up has installed a backup older than 4 hours and its refresh
\* is in flight, no timer being set
C9_Witness ==
  /\ init = "refreshing"
  /\ timers = {}
  /\ latestFile.exists
  /\ now - JSONparse(latestFile.text).lastUpdate > 4
  /\ FX_CACHE.lastUpdate = JSONparse(latestFile.text).lastUpdate
  /\ \E c \in DOMAIN cycles : cycles[c].src = "init" /\ cycles[c].pc = "fetch"

\* the responses of cycle c are processed in this step
ResponsesProcessed(c) ==
  /\ c \in DOMAIN cycles
  /\ c \in DOMAIN cycles'
  /\ cycles[c].pc = "fetch"
  /\ \A k \in 1..4 : cycles'[c].responses[k] # "pending"

\* C20: a refresh cycle in which a response lacks the result, timestamp or
\* close fields ends in failure: the snapshot keeps its series and its
\* lastUpdate and nothing is made ready to be saved.
C20_MissingFieldsFailTheCycle ==
  [][\A c \in DOMAIN cycles :
       (/\ ResponsesProcessed(c)
        /\ \E k \in 1..4 : cycles'[c].responses[k] = "noresult"
        /\ \A k \in 1..4 : cycles'[c].responses[k] # "badts")
       => /\ cycles'[c].pc = "load"
          /\ Served(FX_CACHE') = Served(FX_CACHE)]_vars

\* a timer starts a refresh cycle in this step
TimerStarts ==
  /\ nCycles' = nCycles + 1
  /\ nCycles' \in DOMAIN cycles'
  /\ cycles'[nCycles'].src = "timer"

\* C18: two consecutive timer-driven refresh starts are one REFRESH_INTERVAL
\* (4 hours) apart, on every start-up path.
C18_TimerStartsOnePeriodApart ==
  [][(TimerStarts /\ lastTimerStart # JsNull) => now - lastTimerStart = 4]_vars


-----------------------------------------------------------------------------
(* Properties of the reads (SpecServe).                                     *)

\* GET /api/fx-cache is answered in this step
GetAnswered == resp' # resp /\ resp'.req = "get"

C12_GetReturnsWrittenBody ==
  [][(GetAnswered /\ resp.req = "write" /\ resp.status = 200) =>
       /\ resp'.status = 200
       /\ \A k \in 1..4 :
            Len(resp'.data[SeriesFields[k]]) = Len(resp.body.obj[SeriesFields[k]])]_vars

-----------------------------------------------------------------------------
(* Properties of the write path (SpecWrite).                                *)

\* the names of the (at most) 10 newest of the backups ever created
NewestCreated ==
  { t \in everCreated : Cardinality({ u \in everCreated : u > t }) < 10 }

ValidBody(body) == body.object /\ body.missing = {} /\ body.nonArrays = {}

C7_MissingFieldNamed ==
  \A f \in DataFields :
    (/\ resp.req = "write"
     /\ resp.key = "right"
     /\ resp.body.object
     /\ resp.body.missing = {f}
     /\ resp.body.nonArrays = {})
    => /\ resp.status = 400
       /\ resp.message = "Missing required field"
       /\ resp.field = f

\* a body without lastUpdate has been rejected, lastUpdate being named
C7_Witness ==
  /\ resp.req = "write"
  /\ resp.key = "right"
  /\ resp.body.missing = {"lastUpdate"}
  /\ resp.status = 400
  /\ resp.field = "lastUpdate"

\* handler w writes the latest file in this step
LatestWritten(w) ==
  /\ w \in DOMAIN writes
  /\ writes[w].pc = "write"
  /\ w \in DOMAIN writes'
  /\ writes'[w].pc \in {"upload", "readdir"}

PostStep ==
  \/ nWrites' # nWrites
  \/ writes' # writes
  \/ resp' # resp /\ resp'.req = "write"

PostTurnedAway == nWrites' = nWrites + 1 /\ writes' = writes

\* C14: a request answered 401, 403 or 400 leaves the latest file, the
\* timestamped backups and the snapshot in memory as they were and uploads
\* nothing; and only a request with the right key and a valid body gets a
\* handler that touches the files.
C14_RejectionWritesNothing ==
  [][/\ (nWrites' = nWrites + 1) =>
          \/ PostTurnedAway
          \/ /\ DOMAIN writes' = DOMAIN writes \cup {nWrites'}
             /\ writes'[nWrites'].key = "right"
             /\ ValidBody(writes'[nWrites'].body)
     /\ PostTurnedAway =>
          /\ resp'.req = "write"
          /\ resp'.id = nWrites'
          /\ resp'.status \in {400, 401, 403}
          /\ resp'.status = 400 <=> (resp'.key = "right" /\ ~ValidBody(resp'.body))
          /\ ~resp'.success
          /\ ~resp'.remoteUpload
          /\ UNCHANGED <<latestFile, backupFiles, everCreated, FX_CACHE>>]_vars

\* a body whose series is not an array has been answered 400 with the
\* files untouched
C14_Witness ==
  /\ resp.req = "write"
  /\ resp.status = 400
  /\ resp.body.nonArrays # {}
  /\ resp.key = "right"
  /\ writes = <<>>
  /\ latestFile.exists
  /\ latestFile.text # JSONstringify(resp.body.obj)

\* the await of the latest file's writeFile ends for handler w
LatestWriteEnds(w) ==
  /\ w \in DOMAIN writes
  /\ writes[w].pc = "write"
  /\ w \notin DOMAIN writes' \/ writes'[w] # writes[w]

\* C15: when the write of the latest file ends, either the file holds the
\* new body and the handler goes on, or the request is answered 500
\* "Local backup failed" without success, its handler ends there (no upload,
\* no rotation), and the latest file, the backups and the snapshot in memory
\* are as before the failed write; a 200 only ever answers a handler that
\* has reached the rotation.
C15_FailedWriteAnswers500 ==
  [][/\ \A w \in DOMAIN writes :
          LatestWriteEnds(w) =>
            \/ /\ w \in DOMAIN writes'
               /\ writes'[w].pc \in {"upload", "readdir"}
               /\ latestFile' = FileOf(JSONstringify(writes[w].body.obj))
               /\ resp' = resp
            \/ /\ w \notin DOMAIN writes'
               /\ resp'.req = "write"
               /\ resp'.id = w
               /\ resp'.status = 500
               /\ resp'.message = "Local backup failed"
               /\ ~resp'.success
               /\ ~resp'.remoteUpload
               /\ UNCHANGED <<latestFile, backupFiles, everCreated, FX_CACHE>>
     /\ (resp' # resp /\ resp'.req = "write" /\ resp'.status = 200) =>
          /\ resp'.id \in DOMAIN writes
          /\ writes[resp'.id].pc \in {"readdir", "unlink"}
          /\ resp'.id \notin DOMAIN writes']_vars

\* a write over an existing latest file has failed: answered 500, the file
\* holds what it held, the backup of it was made, nothing is in progress
C15_Witness ==
  /\ resp.req = "write"
  /\ resp.status = 500
  /\ resp.message = "Local backup failed"
  /\ "write" \in cutShort
  /\ writes = <<>>
  /\ latestFile.exists
  /\ latestFile.text # JSONstringify(resp.body.obj)

\* the await of the upload ends for handler w
UploadEnds(w) ==
  /\ w \in DOMAIN writes
  /\ writes[w].pc = "upload"
  /\ w \in DOMAIN writes'
  /\ writes'[w].pc # "upload"

\* handler w is answered in this step
Answered(w) ==
  /\ w \in DOMAIN writes
  /\ w \notin DOMAIN writes'
  /\ writes[w].pc \in {"readdir", "unlink"}

\* C16: an upload that ends, in success or failure, leaves the latest file
\* and the backups as they are and the handler goes on to the rotation; a
\* failed upload is recorded as remoteUpload false with an error message,
\* and the handler is then answered 200 with success, that remoteUpload
\* and that remoteError.
C16_UploadFailureNotFatal ==
  [][\A w \in DOMAIN writes :
       /\ UploadEnds(w) =>
            /\ remote
            /\ writes'[w].pc = "readdir"
            /\ writes'[w].remoteUpload <=> writes'[w].remoteError = "null"
            /\ UNCHANGED <<latestFile, backupFiles, resp>>
       /\ Answered(w) =>
            /\ resp'.req = "write"
            /\ resp'.id = w
            /\ resp'.status = 200
            /\ resp'.success
            /\ resp'.localBackup
            /\ resp'.remoteUpload = writes[w].remoteUpload
            /\ resp'.remoteError = writes[w].remoteError
            /\ remote => (resp'.remoteUpload <=> resp'.remoteError = "null")
            /\ ~remote => (~resp'.remoteUpload /\ resp'.remoteError = "null")]_vars

\* with the remote configured the upload has failed and the write has been
\* answered 200 with the error, the latest file holding the new body
C16_Witness ==
  /\ remote
  /\ resp.req = "write"
  /\ resp.status = 200
  /\ resp.success
  /\ ~resp.remoteUpload
  /\ resp.remoteError = "upload failed"
  /\ latestFile.exists
  /\ latestFile.text = JSONstringify(resp.body.obj)

\* C17: a handler starts its upload only in the step in which its write of
\* the latest file succeeds, so that the file holds the body to upload at
\* that moment; and the result of an upload is only ever recorded by a
\* handler that was uploading.
C17_UploadAfterLocalWrite ==
  [][\A w \in DOMAIN writes' :
       /\ (writes'[w].pc = "upload" /\ (w \notin DOMAIN writes \/ writes[w].pc # "upload")) =>
            /\ w \in DOMAIN writes
            /\ writes[w].pc = "write"
            /\ remote
            /\ latestFile'.exists
            /\ latestFile'.text = JSONstringify(writes'[w].body.obj)
       /\ (w \in DOMAIN writes /\ <<writes'[w].remoteUpload, writes'[w].remoteError>>
                                    # <<writes[w].remoteUpload, writes[w].remoteError>>) =>
            writes[w].pc = "upload"]_vars

\* a handler is uploading the body that the latest file holds, written
\* over an earlier latest file
C17_Witness ==
  \E w \in DOMAIN writes :
    /\ writes[w].pc = "upload"
    /\ writes[w].found
    /\ writes[w].existing # JSONstringify(writes[w].body.obj)
    /\ latestFile.text = JSONstringify(writes[w].body.obj)

BackupEnds(w) ==
  /\ w \in DOMAIN writes
  /\ writes[w].pc = "backup"
  /\ w \in DOMAIN writes'
  /\ writes'[w].pc # "backup"

-----------------------------------------------------------------------------
(* Properties of overlapping cycles and of the fallback (Spec).             *)

\* the fallback load of cycle c ends in this step
FallbackEnds(c) ==
  c \in DOMAIN cycles /\ cycles[c].pc = "load" /\ c \notin DOMAIN cycles'

\* C21: the fallback load of a failed cycle never lowers lastUpdate of the
\* snapshot in memory: it installs the latest file only when that file is
\* newer than the snapshot.
C21_FallbackNeverOlder ==
  [][\A c \in DOMAIN cycles :
       (FallbackEnds(c) /\ Truthy(FX_CACHE.lastUpdate)) =>
         /\ Truthy(FX_CACHE'.lastUpdate)
         /\ FX_CACHE'.lastUpdate >= FX_CACHE.lastUpdate]_vars

\* C22: at most one refresh cycle is in flight.
C22_OneCycleInFlight == Cardinality(DOMAIN cycles) <= 1

\* C23: a series written by a cycle is never replaced by the series of a
\* cycle that started earlier, and a fallback load never replaces what a
\* cycle committed by a snapshot with an older lastUpdate.
C23_NoStaleOverwrite ==
  [][\A k \in 1..4 :
       LET f == SeriesFields[k]
       IN /\ (origin'[f] # origin[f] /\ origin'[f] # 0) => origin'[f] > origin[f]
          /\ \A c \in DOMAIN cycles :
               (FallbackEnds(c) /\ origin[f] \notin {0, c} /\ origin'[f] = 0) =>
                 FX_CACHE'.lastUpdate >= FX_CACHE.lastUpdate]_vars

\* C24: a cycle leaves Promise.all, to either branch, only when none of
\* its four requests is pending.
C24_AllFetchesSettleFirst ==
  [][\A c \in DOMAIN cycles :
       (cycles[c].pc = "fetch" /\ c \in DOMAIN cycles' /\ cycles'[c].pc # "fetch") =>
         \A i \in 1..4 : cycles'[c].fetch[i] # "pending"]_vars

\* C26: the step that ends a successful cycle's save writes a timestamped
\* backup that was not there before.
C26_RefreshCreatesBackup ==
  [][\A c \in DOMAIN cycles :
       (cycles[c].pc = "save" /\ c \notin DOMAIN cycles' /\ latestFile' = FileOf(cycles[c].text)) =>
         \E name \in DOMAIN backupFiles' :
           /\ name \notin DOMAIN backupFiles
           /\ backupFiles'[name] = cycles[c].text]_vars

-----------------------------------------------------------------------------
(* Further properties of the validation (SpecWrite) and of the daily        *)
(* normalization (SpecNorm).                                                *)

\* C27: an authenticated write whose body has the five required fields and
\* exactly one series that is not an array is answered 400 with a message
\* that names that series.
C27_MalformedFieldNamed ==
  (/\ resp.req = "write"
   /\ resp.key = "right"
   /\ resp.body.object
   /\ resp.body.missing = {}
   /\ Cardinality(resp.body.nonArrays) = 1) =>
     /\ resp.status = 400
     /\ resp.field \in resp.body.nonArrays

\* the pairs (date of ts[i], cl[i]) of the last min(8, n) source indices
\* of n timestamps, those with a valid close, in source order
SameIndexPairs(ts, cl) ==
  LET n == Len(ts)
      first == IF n > DailyPoints THEN n - DailyPoints ELSE 0
      pairs == [j \in 1..(n - first) |->
                  [date |-> DateOf(ts[first + j]), close |-> At(cl, first + j - 1)]]
  IN SelectSeq(pairs, ValidClose)

\* C29: the daily normalization of any raw payload gives the valid ones of
\* the last min(8, n) pairs of timestamp and close of the same source index.
C29_DailyPairsSameIndex ==
  norm.kind = "daily" => norm.out = SameIndexPairs(norm.ts, norm.cl)

-----------------------------------------------------------------------------
(* Properties of a snapshot installed from the latest file (Spec,           *)
(* SpecSched).                                                              *)

\* C25: isLoading of the snapshot in memory is true only while a refresh
\* cycle is in flight, also after the snapshot was installed from the
\* latest file.
C25_LoadingOnlyInFlight ==
  FX_CACHE.isLoading = "true" => DOMAIN cycles # {}

\* C28: every point of every series of the snapshot in memory has a close
\* that is neither null nor not a number, also after the snapshot was
\* installed from a latest file that an accepted write produced.
C28_ClosesAreNumbers ==
  \A k \in 1..4 :
    \A i \in 1..Len(FX_CACHE[SeriesFields[k]]) :
      ValidClose(FX_CACHE[SeriesFields[k]][i])

\* initializeFXCache takes the branch of a usable backup at most one
\* refresh period old (server.js:392-400)
FreshStart == init = "boot" /\ init' = "running"

\* the first refresh cycle of the process starts
FirstCycleStarts == nCycles = 0 /\ nCycles' = 1

\* C30: at start-up with a usable backup at most 4 h old, the backup is
\* installed as the snapshot with dataReady true, no cycle starts at once,
\* and the first cycle starts 4 h - age later, that is, 4 h after the
\* backup's lastUpdate.
C30_FreshBackupSchedules ==
  [][/\ FreshStart =>
          /\ latestFile.exists
          /\ now - JSONparse(latestFile.text).lastUpdate <= REFRESH_INTERVAL
          /\ Served(FX_CACHE') = Served(JSONparse(latestFile.text))
          /\ FX_CACHE'.dataReady = "true"
          /\ UNCHANGED <<cycles, nCycles>>
          /\ \E t \in timers' :
               t.due = now + (REFRESH_INTERVAL - (now - FX_CACHE'.lastUpdate))
     /\ (FirstCycleStarts /\ init = "running") =>
          now = FX_CACHE.lastUpdate + REFRESH_INTERVAL]_vars

-----------------------------------------------------------------------------
(* Properties of the schedule and of the saved file (Spec, SpecServe,       *)
(* SpecSched).                                                              *)

\* refreshFXCache called by POST /api/fx-cache/refresh returns in this step
ManualEnds(c) ==
  c \in DOMAIN cycles /\ cycles[c].src = "manual" /\ c \notin DOMAIN cycles'

\* C31: when a manual refresh has completed, the pending timers are due one
\* refresh period after that completion.
C31_ManualReschedulesTimer ==
  [][\A c \in DOMAIN cycles :
       ManualEnds(c) => \A t \in timers' : t.due = now + REFRESH_INTERVAL]_vars

\* refreshFXCache returns true in this step
SuccessEnds(c) ==
  c \in DOMAIN cycles /\ cycles[c].pc = "save" /\ c \notin DOMAIN cycles'

\* C35: when a cycle reports success, the latest file holds the snapshot
\* that the cycle committed.
C35_SuccessMeansSaved ==
  [][\A c \in DOMAIN cycles :
       SuccessEnds(c) =>
         /\ latestFile'.exists
         /\ latestFile'.text = cycles[c].text]_vars

\* C36: whenever the content of the latest file is replaced, by a write
\* whose own backup was written or by the save of a refresh, some
\* timestamped backup holds the replaced content right after.
C36_NoOverwriteWithoutCopy ==
  [][(/\ latestFile.exists
      /\ latestFile' # latestFile
      /\ \A w \in DOMAIN writes : LatestWritten(w) => writes[w].backup = "written") =>
       \E name \in DOMAIN backupFiles' : backupFiles'[name] = latestFile.text]_vars

\* the time the next timer-driven cycle starts: the earliest due timer
NextTimerDue == CHOOSE d \in { t.due : t \in timers } : \A t \in timers : d <= t.due

\* C38: the nextRefresh that GET /api/fx-cache reports is the time at which
\* the next timer-driven cycle starts.
C38_NextRefreshIsNextStart ==
  [][(GetAnswered /\ resp'.status = 200 /\ timers # {}) =>
       resp'.nextRefresh = NextTimerDue]_vars

\* cycle c takes its failure branch in this step (server.js:325-328)
CycleFails(c) ==
  c \in DOMAIN cycles /\ cycles[c].pc = "fetch"
  /\ c \in DOMAIN cycles' /\ cycles'[c].pc = "load"

\* C32: a failing cycle starts no retry and leaves the timers as they are
\* (the start-up refresh installs the recurring timer when it returns,
\* failed or not); once start-up is over a cycle starts only at the tick
\* of a due timer, which stays scheduled one period later.
C32_FailureKeepsSchedule ==
  [][/\ \A c \in DOMAIN cycles :
          /\ CycleFails(c) => UNCHANGED <<timers, nTimers, nCycles>>
          /\ FallbackEnds(c) =>
               /\ nCycles' = nCycles
               /\ ~lastCycle'.result
               /\ timers' = IF cycles[c].src = "init"
                            THEN timers \cup {[id |-> nTimers + 1, kind |-> "interval",
                                               due |-> now + REFRESH_INTERVAL]}
                            ELSE timers
     /\ (nCycles' = nCycles + 1 /\ init = "running") =>
          /\ cycles'[nCycles'].src = "timer"
          /\ \E t \in timers :
               /\ t.due = now
               /\ \E u \in timers' :
                    /\ u.kind = "interval"
                    /\ u.due = now + REFRESH_INTERVAL
                    /\ timers' = (timers \ {t}) \cup {u}]_vars

\* the start-up refresh failed and ended, and the next cycle was started by
\* the recurring timer one period after it was installed
C32_Witness ==
  /\ lastCycle.src = "init"
  /\ ~lastCycle.result
  /\ lastCycle.alone
  /\ nCycles = 2
  /\ 2 \in DOMAIN cycles
  /\ cycles[2].src = "timer"
  /\ lastTimerStart = StartTime + REFRESH_INTERVAL
  /\ \E t \in timers : t.due = lastTimerStart + REFRESH_INTERVAL

\* cycle c waits for its requests and no other cycle or start-up load has
\* run since it started
FetchingAlone(c) ==
  c \in DOMAIN cycles /\ cycles[c].pc = "fetch" /\ cycles[c].alone

\* C33: the start of a cycle sets isLoading and clears error and changes
\* nothing else of the snapshot; while the cycle waits for its requests and
\* nothing else writes the snapshot, the series, lastUpdate and dataReady
\* are those from before its start, and GET /api/fx-cache answers as it
\* would have answered then.
C33_StartChangesOnlyFlags ==
  /\ [][nCycles' = nCycles + 1 =>
          LET b == cycles'[nCycles'].before
          IN /\ FX_CACHE' = [b EXCEPT !.isLoading = "true", !.error = "null"]
             /\ cycles'[nCycles'].src # "init" => b = FX_CACHE]_vars
  /\ [](\A c \in DOMAIN cycles :
          FetchingAlone(c) =>
            /\ Served(FX_CACHE) = Served(cycles[c].before)
            /\ FX_CACHE.dataReady = cycles[c].before.dataReady)
  /\ [][\A c \in DOMAIN cycles :
          (FetchingAlone(c) /\ GetAnswered) =>
            /\ resp'.status = GetResponse(cycles[c].before).status
            /\ resp'.status = 200 => resp'.data = Served(cycles[c].before)
            /\ resp'.isLoading = "true"]_vars

\* a GET was answered 200 while a cycle was waiting for its requests, with
\* the data from before the cycle's start
C33_Witness ==
  \E c \in DOMAIN cycles :
    /\ FetchingAlone(c)
    /\ cycles[c].before.dataReady = "true"
    /\ cycles[c].before.isLoading = "false"
    /\ resp.req = "get"
    /\ resp.status = 200
    /\ resp.isLoading = "true"
    /\ resp.data = Served(cycles[c].before)

-----------------------------------------------------------------------------
(* Properties of the scheduler under fair scheduling (SpecFair).            *)

\* every refresh cycle in flight ends
EveryCycleEnds ==
  \A c \in 1..MaxCycles : (c \in DOMAIN cycles) ~> (c \notin DOMAIN cycles)

\* initializeFXCache reaches the installation of a recurring timer, and
\* from then on a recurring timer is always installed
StartupInstallsTimer ==
  /\ (init = "boot") ~> (init = "running")
  /\ [](init = "running" => \E t \in timers : t.kind \in {"interval", "timeout"})
  /\ [](init = "running" => <>(\E t \in timers : t.kind = "interval"))

\* cycle c ends, by either return of refreshFXCache
CycleEnds(c) == c \in DOMAIN cycles /\ c \notin DOMAIN cycles'

\* C34: every refresh cycle ends, whatever the outcome of its requests, of
\* the save and of the fallback load; when a cycle ends and no other cycle
\* is in flight, isLoading of the snapshot is false; start-up always
\* reaches the installation of the recurring timer, and a timer stays
\* installed ever after.
C34_CyclesTerminate ==
  /\ EveryCycleEnds
  /\ StartupInstallsTimer
  /\ [][\A c \in DOMAIN cycles :
          (CycleEnds(c) /\ DOMAIN cycles' = {}) => FX_CACHE'.isLoading = "false"]_vars

\* GET /api/fx-cache answers 503: server.js:455
NotReady == FX_CACHE.dataReady # "true"

\* a refresh cycle has failed and is in its catch block (server.js:325-331)
SomeCycleFailed == \E c \in DOMAIN cycles : cycles[c].pc = "load"

\* start-up is over, the snapshot is not ready, no cycle has just failed,
\* and the bounds leave room for one more cycle a refresh period from now
AwaitingData ==
  /\ init = "running"
  /\ NotReady
  /\ ~SomeCycleFailed
  /\ CycleBudget
  /\ now + REFRESH_INTERVAL <= StartTime + MaxSchedElapsed

\* C37: once start-up is over, a snapshot that is not ready becomes ready
\* unless a refresh cycle fails afterwards: when the requests succeed from
\* then on, the next tick of the timer makes the snapshot ready, also when
\* start-up found no usable backup and its refresh failed.
C37_EventuallyReady == AwaitingData ~> (~NotReady \/ SomeCycleFailed)

\* start-up found no latest file and its refresh failed; the cycle of the
\* first tick of the recurring timer has committed
C37_Witness ==
  /\ ~latestFile.exists
  /\ nTimers = 1
  /\ lastCycle.src = "init" /\ ~lastCycle.result
  /\ 2 \in DOMAIN cycles
  /\ cycles[2].src = "timer"
  /\ cycles[2].pc = "save"
  /\ cycles[2].before.dataReady = "false"
  /\ ~NotReady

====
